---- MODULE Spec2Model ----
(***************************************************************************)
(* State machine of the TaskDetailModal React component                    *)
(* (src/components/TaskDetailModal.tsx).  One action per event handler,    *)
(* timer callback, FileReader callback or parent re-render.  A handler     *)
(* action includes the re-render it causes and the effects that re-render  *)
(* runs (the sync effect and the auto-save effect with its cleanup).       *)
(*                                                                         *)
(* Optional values (undefined / null) are sequences of length 0 or 1.      *)
(* Objects are records; a Partial<T> update is a record over a subset of   *)
(* the keys and an object spread is Merge.                                 *)
(***************************************************************************)
EXTENDS Integers, Sequences, FiniteSets, TLC

\* ---------------------------------------------------------------- bounds
\* number of ids generateUniqueId may hand out in one behaviour
MaxIds == 3
\* number of FileReader reads that may be in flight at once
MaxReads == 2
\* number of sub-steps, and of action items, one proposal confirmation may add
MaxAdditions == 2

\* ------------------------------------------------------ program constants
DebounceMs == 1000
MAX_FILE_SIZE_MB == 5
MAX_FILE_SIZE_BYTES == MAX_FILE_SIZE_MB * 1024 * 1024
CardOffsetX == 100
CardOffsetY == 50
NewSubStepX == 50
NewSubStepY == 50
DefaultCanvasWidth == 1200
DefaultCanvasHeight == 800
ProposalX == 50
ProposalY == 50
ProposalStepX == 300
ProposalStepY == 200
ProposalColumns == 3

\* granularity of the clock in ms
TickMs == 500

Min(a, b) == IF a < b THEN a ELSE b
Max(a, b) == IF a > b THEN a ELSE b

None == << >>
Some(x) == << x >>

\* task.id of the task shown in the modal
TaskId == "task-1"

VARIABLES
  mounted,               \* the component is mounted
  canEdit,               \* prop canEdit
  taskExtendedDetails,   \* prop task.extendedDetails (optional)
  localDetails,          \* useState localDetails
  timers,                \* pending setTimeout callbacks of the auto-save effect
  draggedSubStep,        \* useState draggedSubStep (optional id)
  nextId,                \* ids handed out by generateUniqueId so far
  reads,                 \* FileReader reads in flight
  isGeneratingProposals, \* useState isGeneratingProposals
  proposalError,         \* useState proposalError (optional)
  showProposalReview,    \* useState showProposalReview
  activeTab,             \* useState activeTab
  isSlideEditorOpen,     \* useState isSlideEditorOpen
  isGeneratingSlides,    \* useState isGeneratingSlides
  slideError,            \* useState slideError (optional)
  showActionItemTable,   \* useState showActionItemTable
  selectedActionItem,    \* useState selectedActionItem (optional)
  showDecisionModal,     \* useState showDecisionModal
  showCustomReportModal, \* useState showCustomReportModal
  aliased,               \* object identity of the sub-steps of localDetails:
                         \* aliased.ext holds the ids whose SubStep object is the
                         \* very object in task.extendedDetails.subSteps, aliased.saved
                         \* those whose object is in the details last handed to
                         \* onUpdateTask
  saved,                 \* arguments of the last onUpdateTask call (optional)
  savesSinceChange,      \* onUpdateTask calls since localDetails/extendedDetails last changed
  savesSinceRun,         \* onUpdateTask calls since the auto-save effect last ran
  quiet,                 \* ms since localDetails/extendedDetails last changed (capped)
  edited,                \* the user has edited localDetails since the mount
  last                   \* the handler that ran in the last step, its argument, what
                         \* it showed (alert, confirm), whether it called the AI
                         \* service or onUpdateTask, and whether it reset the file
                         \* input (event.target.value = '')

\* the view state of the dialog, its tabs and its sub-modals
uiVars == << activeTab, isSlideEditorOpen, isGeneratingSlides, slideError,
             showActionItemTable, selectedActionItem, showDecisionModal,
             showCustomReportModal >>

vars == << mounted, canEdit, taskExtendedDetails, localDetails, timers,
           draggedSubStep, nextId, reads,
           isGeneratingProposals, proposalError, showProposalReview,
           activeTab, isSlideEditorOpen, isGeneratingSlides, slideError,
           showActionItemTable, selectedActionItem, showDecisionModal,
           showCustomReportModal, aliased,
           saved, savesSinceChange, savesSinceRun, quiet, edited, last >>

\* ------------------------------------------------------------ data model

\* the fallback object of the extendedDetails useMemo
DefaultDetails ==
  [ subSteps |-> << >>,
    resources |-> "",
    responsible |-> "",
    notes |-> "",
    attachments |-> << >>,
    decisions |-> << >>,
    subStepCanvasSize |-> [ width |-> DefaultCanvasWidth, height |-> DefaultCanvasHeight ] ]

\* const extendedDetails = useMemo(() => task.extendedDetails || {...})
ExtendedDetails(ted) == IF ted = None THEN DefaultDetails ELSE ted[1]

\* the ids of the sub-steps of a details object
SubStepIds(ld) == { ld.subSteps[i].id : i \in DOMAIN ld.subSteps }

\* object spread { ...prev, ...updates }
Merge(prev, updates) ==
  [ k \in (DOMAIN prev) \cup (DOMAIN updates) |->
      IF k \in DOMAIN updates THEN updates[k] ELSE prev[k] ]

\* setLocalDetails(prev => ({ ...prev, ...updates }))
updateLocalDetails(prev, updates) == Merge(prev, updates)

\* generateUniqueId(prefix): the n-th id handed out
generateUniqueId(prefix, n) == << prefix, n >>

\* key order in which the objects of the model are built, which is the
\* order JSON.stringify emits them in
DetailsKeys == << "subSteps", "resources", "responsible", "notes",
                 "attachments", "decisions", "subStepCanvasSize", "reportDeck" >>

\* JSON.stringify of an object: the present keys in order, each with its value
JSONstringify(obj) ==
  LET present == SelectSeq(DetailsKeys, LAMBDA k : k \in DOMAIN obj)
  IN  [ i \in 1 .. Len(present) |-> << present[i], obj[present[i]] >> ]

\* ------------------------------------------------------- auto-save effect

\* the closure compares against the fallback object, not the memoized value
NewTimer_StaleExt(ld, ed) ==
  [ remaining |-> DebounceMs, localDetails |-> ld, extendedDetails |-> DefaultDetails,
    current |-> TRUE ]

\* what the setTimeout callback of one effect run closes over
NewTimer(ld, ed) ==
  [ remaining |-> DebounceMs, localDetails |-> ld, extendedDetails |-> ed,
    current |-> TRUE ]

\* a cleanup that forgets clearTimeout: the old timer stays pending
Cleanup_NoClear(ts) == [ i \in DOMAIN ts |-> [ ts[i] EXCEPT !.current = FALSE ] ]

\* return () => clearTimeout(timeoutId): drops the timer of the previous run
Cleanup(ts) == SelectSeq(ts, LAMBDA t : ~ t.current)

\* useEffect(() => { const timeoutId = setTimeout(..., 1000); return cleanup },
\*           [localDetails, extendedDetails, saveChanges])
AutoSaveEffect(ts, ld, ed) == Append(Cleanup(ts), NewTimer(ld, ed))

\* the comparison inverted
TimerSaves_Inverted(t) == JSONstringify(t.localDetails) = JSONstringify(t.extendedDetails)

\* the comparison left out
TimerSaves_Always(t) == TRUE

\* if (JSON.stringify(localDetails) !== JSON.stringify(extendedDetails)) saveChanges()
TimerSaves(t) == JSONstringify(t.localDetails) # JSONstringify(t.extendedDetails)

\* saveChanges: onUpdateTask(task.id, localDetails)
saveChanges(ld) == [ taskId |-> TaskId, updates |-> ld ]

\* ------------------------------------------------------------ step helpers

\* what a step that shows and calls nothing leaves in last
NoOutput ==
  [ op |-> "", arg |-> None, alert |-> FALSE, confirm |-> "none", aiCall |-> FALSE,
    inputReset |-> FALSE, saveCall |-> FALSE ]

\* the step ran op; extra holds its argument and what it showed or called
Ran(op, extra) == last' = Merge([ NoOutput EXCEPT !.op = op ], extra)

Out(op) == Ran(op, [ arg |-> None ])

\* a render in which localDetails got a new identity: the auto-save effect re-runs
Render(ld) ==
  /\ localDetails' = ld
  /\ timers' = AutoSaveEffect(timers, ld, ExtendedDetails(taskExtendedDetails))
  /\ quiet' = 0
  /\ savesSinceChange' = 0
  /\ savesSinceRun' = 0
  /\ edited' = TRUE

\* setLocalDetails with an object whose sub-steps are the SubStep objects of prev
SetLocal(ld) ==
  /\ Render(ld)
  /\ UNCHANGED aliased

\* setLocalDetails with an object in which the sub-step subStepId is a new
\* object ({ ...ss, ... }) or is left out
SetLocalReplacing(ld, subStepId) ==
  /\ Render(ld)
  /\ aliased' = [ k \in DOMAIN aliased |-> aliased[k] \ { subStepId } ]

NoRender ==
  UNCHANGED << localDetails, timers, quiet, savesSinceChange, savesSinceRun, edited,
               aliased >>

\* ------------------------------------------------------------------- Init

\* a task that was saved before: one sub-step with one action item, one attachment
PersistedDetails ==
  [ DefaultDetails EXCEPT
      !.notes = "memo",
      !.attachments = << [ id |-> << "attach", 102 >>, name |-> "old.txt",
                           type |-> "text/plain",
                           dataUrl |-> << "data:", "text/plain", "old.txt" >> ] >>,
      !.subSteps = << [ id |-> << "substep", 100 >>, text |-> "step", notes |-> "",
                        position |-> [ x |-> NewSubStepX, y |-> NewSubStepY ],
                        actionItems |-> << [ id |-> << "action", 101 >>, text |-> "item",
                                             completed |-> FALSE ] >>,
                        attachments |-> << >> ] >> ]

Init ==
  /\ mounted = TRUE
  /\ canEdit \in BOOLEAN
  /\ taskExtendedDetails \in { None, Some(PersistedDetails) }
  /\ localDetails = ExtendedDetails(taskExtendedDetails)
  /\ timers = << NewTimer(localDetails, ExtendedDetails(taskExtendedDetails)) >>
  /\ draggedSubStep = None
  /\ nextId = 0
  /\ reads = << >>
  /\ isGeneratingProposals = FALSE
  /\ proposalError = None
  /\ showProposalReview = FALSE
  /\ activeTab = "overview"
  /\ isSlideEditorOpen = FALSE
  /\ isGeneratingSlides = FALSE
  /\ slideError = None
  /\ showActionItemTable = FALSE
  /\ selectedActionItem = None
  /\ showDecisionModal = FALSE
  /\ showCustomReportModal = FALSE
  /\ aliased = [ ext |-> SubStepIds(localDetails), saved |-> { } ]
  /\ saved = None
  /\ savesSinceChange = 0
  /\ savesSinceRun = 0
  /\ quiet = 0
  /\ edited = FALSE
  /\ last = [ NoOutput EXCEPT !.op = "mount" ]

\* ------------------------------------------------------- time and timers

\* TickMs pass; no timer is overdue
Tick ==
  /\ mounted
  /\ \A i \in DOMAIN timers : timers[i].remaining > 0
  /\ timers' = [ i \in DOMAIN timers |->
                   [ timers[i] EXCEPT !.remaining = Max(0, @ - TickMs) ] ]
  /\ quiet' = Min(DebounceMs, quiet + TickMs)
  /\ Out("tick")
  /\ UNCHANGED << mounted, canEdit, taskExtendedDetails, localDetails,
                  draggedSubStep, nextId, reads,
                  isGeneratingProposals, proposalError, showProposalReview,
                  saved, savesSinceChange, savesSinceRun, edited >>
  /\ UNCHANGED uiVars
  /\ UNCHANGED aliased

\* the setTimeout callback of the auto-save effect runs
FireTimer ==
  /\ mounted
  /\ \E i \in DOMAIN timers :
       /\ timers[i].remaining = 0
       /\ timers' = SubSeq(timers, 1, i - 1) \o SubSeq(timers, i + 1, Len(timers))
       /\ IF TimerSaves(timers[i])
            THEN /\ saved' = Some(saveChanges(timers[i].localDetails))
                 /\ savesSinceChange' = Min(2, savesSinceChange + 1)
                 /\ savesSinceRun' = Min(2, savesSinceRun + 1)
                 /\ aliased' = [ aliased EXCEPT !.saved =
                                   IF timers[i].current
                                     THEN SubStepIds(timers[i].localDetails)
                                     ELSE { } ]
                 /\ Ran("timer", [ saveCall |-> TRUE ])
            ELSE /\ UNCHANGED << saved, savesSinceChange, savesSinceRun, aliased >>
                 /\ Out("timer")
  /\ UNCHANGED << mounted, canEdit, taskExtendedDetails, localDetails,
                  draggedSubStep, nextId, reads,
                  isGeneratingProposals, proposalError, showProposalReview,
                  quiet, edited >>
  /\ UNCHANGED uiVars

\* ------------------------------------------------------------ the parent

\* the sync effect left out: the new extendedDetails never reaches localDetails
TaskChanged_NoSync(ted, stored) ==
  /\ taskExtendedDetails' = ted
  /\ localDetails' = localDetails
  /\ aliased' = [ ext |-> IF stored THEN aliased.saved ELSE { }, saved |-> aliased.saved ]
  /\ timers' = AutoSaveEffect(timers, localDetails, ExtendedDetails(ted))
  /\ quiet' = 0
  /\ savesSinceChange' = 0
  /\ savesSinceRun' = 0
  /\ UNCHANGED edited

\* a re-render with a new task.extendedDetails: the useMemo yields a new
\* extendedDetails, the sync effect copies it into localDetails, the
\* auto-save effect re-runs.  localDetails is then the object the parent
\* passed; stored says that it is the object onUpdateTask was last called with.
TaskChanged(ted, stored) ==
  /\ taskExtendedDetails' = ted
  /\ localDetails' = ExtendedDetails(ted)
  /\ aliased' = [ ext |-> SubStepIds(ExtendedDetails(ted)),
                  saved |-> IF stored THEN SubStepIds(ExtendedDetails(ted)) ELSE { } ]
  /\ timers' = AutoSaveEffect(timers, ExtendedDetails(ted), ExtendedDetails(ted))
  /\ quiet' = 0
  /\ savesSinceChange' = 0
  /\ savesSinceRun' = 0
  /\ UNCHANGED edited

\* the parent stores the value it got from onUpdateTask and passes it back
ParentStores ==
  /\ mounted
  /\ saved # None
  /\ taskExtendedDetails # Some(saved[1].updates)
  /\ TaskChanged(Some(saved[1].updates), TRUE)
  /\ Out("parentStores")
  /\ UNCHANGED << mounted, canEdit, draggedSubStep, nextId, reads,
                  isGeneratingProposals, proposalError, showProposalReview, saved >>
  /\ UNCHANGED uiVars

\* the parent passes a task whose extendedDetails is another object:
\* none, the stored one, or a fresh copy of the present one
ParentSetsDetails ==
  /\ mounted
  /\ \E ted \in { None, Some(PersistedDetails), taskExtendedDetails } :
       TaskChanged(ted, FALSE)
  /\ Out("parentSetsDetails")
  /\ UNCHANGED << mounted, canEdit, draggedSubStep, nextId, reads,
                  isGeneratingProposals, proposalError, showProposalReview, saved >>
  /\ UNCHANGED uiVars

\* the parent re-renders with a new onUpdateTask function: saveChanges gets a
\* new identity and the auto-save effect re-runs
ParentPassesNewCallback ==
  /\ mounted
  /\ timers' = AutoSaveEffect(timers, localDetails, ExtendedDetails(taskExtendedDetails))
  /\ savesSinceRun' = 0
  /\ Out("parentPassesNewCallback")
  /\ UNCHANGED << mounted, canEdit, taskExtendedDetails, localDetails,
                  draggedSubStep, nextId, reads,
                  isGeneratingProposals, proposalError, showProposalReview,
                  saved, savesSinceChange, quiet, edited >>
  /\ UNCHANGED uiVars
  /\ UNCHANGED aliased

\* the parent changes the canEdit prop
ParentSetsCanEdit ==
  /\ mounted
  /\ canEdit' = ~ canEdit
  /\ Out("parentSetsCanEdit")
  /\ UNCHANGED << mounted, taskExtendedDetails, localDetails, timers,
                  draggedSubStep, nextId, reads,
                  isGeneratingProposals, proposalError, showProposalReview,
                  saved, savesSinceChange, savesSinceRun, quiet, edited >>
  /\ UNCHANGED uiVars
  /\ UNCHANGED aliased

\* the parent removes the modal (after onClose): effect cleanups run
Unmount ==
  /\ mounted
  /\ mounted' = FALSE
  /\ timers' = Cleanup(timers)
  /\ Out("unmount")
  /\ UNCHANGED << canEdit, taskExtendedDetails, localDetails,
                  draggedSubStep, nextId, reads,
                  isGeneratingProposals, proposalError, showProposalReview,
                  saved, savesSinceChange, savesSinceRun, quiet, edited >>
  /\ UNCHANGED uiVars
  /\ UNCHANGED aliased

\* ----------------------------------------------------------- overview tab

TextValues == { "", "x" }

\* onChange of the resources / responsible / notes inputs (disabled unless canEdit)
EditOverviewField ==
  /\ mounted
  /\ canEdit
  /\ \E field \in { "resources", "responsible", "notes" }, v \in TextValues :
       /\ v # localDetails[field]
       /\ SetLocal(updateLocalDetails(localDetails, field :> v))
  /\ Out("editOverviewField")
  /\ UNCHANGED << mounted, canEdit, taskExtendedDetails,
                  draggedSubStep, nextId, reads,
                  isGeneratingProposals, proposalError, showProposalReview, saved >>
  /\ UNCHANGED uiVars

\* ------------------------------------------------------ sub-step handlers


\* a new sub-step placed at the canvas origin
NewSubStep_AtOrigin(id) ==
  [ id |-> id, text |-> "new", notes |-> "",
    position |-> [ x |-> 0, y |-> 0 ],
    actionItems |-> << >>, attachments |-> << >> ]

\* the SubStep object handleAddSubStep builds
NewSubStep(id) ==
  [ id |-> id, text |-> "new", notes |-> "",
    position |-> [ x |-> NewSubStepX, y |-> NewSubStepY ],
    actionItems |-> << >>, attachments |-> << >> ]

\* localDetails.subSteps.map(ss => ss.id === subStepId ? { ...ss, ...updates } : ss)
UpdateSubSteps(subSteps, subStepId, updates) ==
  [ i \in DOMAIN subSteps |->
      IF subSteps[i].id = subStepId THEN Merge(subSteps[i], updates) ELSE subSteps[i] ]

\* the filter test inverted: keeps the sub-step that was to go
RemoveSubStep_Inverted(subSteps, subStepId) ==
  SelectSeq(subSteps, LAMBDA ss : ss.id = subStepId)

\* localDetails.subSteps.filter(ss => ss.id !== subStepId)
RemoveSubStep(subSteps, subStepId) ==
  SelectSeq(subSteps, LAMBDA ss : ss.id # subStepId)

handleAddSubStep ==
  /\ mounted
  /\ IF ~ canEdit
       THEN NoRender /\ UNCHANGED nextId
       ELSE /\ nextId < MaxIds
            /\ SetLocal(updateLocalDetails(localDetails,
                 [ subSteps |-> Append(localDetails.subSteps,
                                       NewSubStep(generateUniqueId("substep", nextId))) ]))
            /\ nextId' = nextId + 1
  /\ Out("handleAddSubStep")
  /\ UNCHANGED << mounted, canEdit, taskExtendedDetails, draggedSubStep, reads,
                  isGeneratingProposals, proposalError,
                  showProposalReview, saved >>
  /\ UNCHANGED uiVars

\* the update the title input of a sub-step card sends
SubStepUpdates == { [ text |-> "edited" ] }

handleUpdateSubStep ==
  /\ mounted
  /\ \E subStepId \in SubStepIds(localDetails), updates \in SubStepUpdates :
       /\ Ran("handleUpdateSubStep", [ arg |-> Some(subStepId) ])
       /\ IF ~ canEdit
            THEN NoRender
            ELSE SetLocalReplacing(updateLocalDetails(localDetails,
                   [ subSteps |-> UpdateSubSteps(localDetails.subSteps, subStepId, updates) ]),
                   subStepId)
  /\ UNCHANGED << mounted, canEdit, taskExtendedDetails, draggedSubStep, nextId, reads,
                  isGeneratingProposals, proposalError, showProposalReview, saved >>
  /\ UNCHANGED uiVars

handleRemoveSubStep ==
  /\ mounted
  /\ \E subStepId \in SubStepIds(localDetails), accepted \in BOOLEAN :
       IF ~ canEdit
         THEN /\ NoRender
              /\ Ran("handleRemoveSubStep", [ arg |-> Some(subStepId) ])
       ELSE IF accepted
         THEN /\ SetLocalReplacing(updateLocalDetails(localDetails,
                   [ subSteps |-> RemoveSubStep(localDetails.subSteps, subStepId) ]),
                   subStepId)
              /\ Ran("handleRemoveSubStep", [ arg |-> Some(subStepId), confirm |-> "accepted" ])
         ELSE /\ NoRender
              /\ Ran("handleRemoveSubStep", [ arg |-> Some(subStepId), confirm |-> "declined" ])
  /\ UNCHANGED << mounted, canEdit, taskExtendedDetails, draggedSubStep, nextId, reads,
                  isGeneratingProposals, proposalError, showProposalReview, saved >>
  /\ UNCHANGED uiVars

\* --------------------------------------------------- action-item handlers

NewActionItem(id) == [ id |-> id, text |-> "new", completed |-> FALSE ]

\* the (sub-step id, action item id) pairs the sub-step cards render
ActionItemRefs(ld) ==
  UNION { { << ld.subSteps[i].id, ld.subSteps[i].actionItems[j].id >> :
              j \in DOMAIN ld.subSteps[i].actionItems } : i \in DOMAIN ld.subSteps }

\* subSteps.map(ss => ss.id === subStepId
\*   ? { ...ss, actionItems: [...(ss.actionItems || []), newActionItem] } : ss)
AddActionItem(subSteps, subStepId, newActionItem) ==
  [ i \in DOMAIN subSteps |->
      IF subSteps[i].id = subStepId
        THEN Merge(subSteps[i],
                   [ actionItems |-> Append(subSteps[i].actionItems, newActionItem) ])
        ELSE subSteps[i] ]

\* ss.actionItems?.map(ai => ai.id === actionItemId ? { ...ai, ...updates } : ai) || []
UpdateActionItem(subSteps, subStepId, actionItemId, updates) ==
  [ i \in DOMAIN subSteps |->
      IF subSteps[i].id = subStepId
        THEN Merge(subSteps[i],
                   [ actionItems |->
                       [ j \in DOMAIN subSteps[i].actionItems |->
                           IF subSteps[i].actionItems[j].id = actionItemId
                             THEN Merge(subSteps[i].actionItems[j], updates)
                             ELSE subSteps[i].actionItems[j] ] ])
        ELSE subSteps[i] ]

\* ss.actionItems?.filter(ai => ai.id !== actionItemId) || []
RemoveActionItem(subSteps, subStepId, actionItemId) ==
  [ i \in DOMAIN subSteps |->
      IF subSteps[i].id = subStepId
        THEN Merge(subSteps[i],
                   [ actionItems |-> SelectSeq(subSteps[i].actionItems,
                                               LAMBDA ai : ai.id # actionItemId) ])
        ELSE subSteps[i] ]

handleAddActionItem ==
  /\ mounted
  /\ \E subStepId \in SubStepIds(localDetails) :
       /\ Ran("handleAddActionItem", [ arg |-> Some(subStepId) ])
       /\ IF ~ canEdit
            THEN NoRender /\ UNCHANGED nextId
            ELSE /\ nextId < MaxIds
                 /\ SetLocalReplacing(updateLocalDetails(localDetails,
                      [ subSteps |-> AddActionItem(localDetails.subSteps, subStepId,
                                       NewActionItem(generateUniqueId("action", nextId))) ]),
                      subStepId)
                 /\ nextId' = nextId + 1
  /\ UNCHANGED << mounted, canEdit, taskExtendedDetails, draggedSubStep, reads,
                  isGeneratingProposals, proposalError, showProposalReview, saved >>
  /\ UNCHANGED uiVars

\* the update the checkbox of an action item sends
ActionItemUpdates(ai) == { [ completed |-> ~ ai.completed ] }

ActionItemOf(ld, ref) ==
  LET ss == CHOOSE s \in { ld.subSteps[i] : i \in DOMAIN ld.subSteps } : s.id = ref[1]
  IN  CHOOSE ai \in { ss.actionItems[j] : j \in DOMAIN ss.actionItems } : ai.id = ref[2]

handleUpdateActionItem ==
  /\ mounted
  /\ \E ref \in ActionItemRefs(localDetails) :
       \E updates \in ActionItemUpdates(ActionItemOf(localDetails, ref)) :
         /\ Ran("handleUpdateActionItem", [ arg |-> Some(ref) ])
         /\ IF ~ canEdit
              THEN NoRender
              ELSE SetLocalReplacing(updateLocalDetails(localDetails,
                     [ subSteps |-> UpdateActionItem(localDetails.subSteps,
                                                     ref[1], ref[2], updates) ]),
                     ref[1])
  /\ UNCHANGED << mounted, canEdit, taskExtendedDetails, draggedSubStep, nextId, reads,
                  isGeneratingProposals, proposalError, showProposalReview, saved >>
  /\ UNCHANGED uiVars

handleRemoveActionItem ==
  /\ mounted
  /\ \E ref \in ActionItemRefs(localDetails), accepted \in BOOLEAN :
       IF ~ canEdit
         THEN /\ NoRender
              /\ Ran("handleRemoveActionItem", [ arg |-> Some(ref) ])
       ELSE IF accepted
         THEN /\ SetLocalReplacing(updateLocalDetails(localDetails,
                   [ subSteps |-> RemoveActionItem(localDetails.subSteps, ref[1], ref[2]) ]),
                   ref[1])
              /\ Ran("handleRemoveActionItem", [ arg |-> Some(ref), confirm |-> "accepted" ])
         ELSE /\ NoRender
              /\ Ran("handleRemoveActionItem", [ arg |-> Some(ref), confirm |-> "declined" ])
  /\ UNCHANGED << mounted, canEdit, taskExtendedDetails, draggedSubStep, nextId, reads,
                  isGeneratingProposals, proposalError, showProposalReview, saved >>
  /\ UNCHANGED uiVars

\* ------------------------------------------------------ attachment handlers

\* the files the user may pick: one at the size limit, one a byte above it
Files ==
  { [ name |-> "a.png", type |-> "image/png", size |-> MAX_FILE_SIZE_BYTES ],
    [ name |-> "b.pdf", type |-> "application/pdf", size |-> MAX_FILE_SIZE_BYTES + 1 ] }

\* if (file.size > MAX_FILE_SIZE_BYTES)
FileTooLarge(file) == file.size > MAX_FILE_SIZE_BYTES

\* the data URL reader.readAsDataURL yields for a file
DataUrl(file) == << "data:", file.type, file.name >>

\* the Attachment object reader.onload builds
NewAttachment(id, file) ==
  [ id |-> id, name |-> file.name, type |-> file.type, dataUrl |-> DataUrl(file) ]

\* reader.onload closes over localDetails.attachments of the render in which
\* handleAttachmentChange ran
NewRead(file, ld) == [ file |-> file, attachments |-> ld.attachments ]

\* attachments: [...(localDetails.attachments || []), newAttachment]
OnLoadUpdates(read, id) ==
  [ attachments |-> Append(read.attachments, NewAttachment(id, read.file)) ]

\* onChange of the file input; no file chosen is chosen = None
handleAttachmentChange ==
  /\ mounted
  /\ \E chosen \in { None } \cup { Some(f) : f \in Files } :
       IF ~ canEdit \/ chosen = None
         THEN /\ Ran("handleAttachmentChange", [ arg |-> chosen ])
              /\ UNCHANGED reads
       ELSE IF FileTooLarge(chosen[1])
         THEN /\ Ran("handleAttachmentChange",
                     [ arg |-> chosen, alert |-> TRUE, inputReset |-> TRUE ])
              /\ UNCHANGED reads
         ELSE /\ Len(reads) < MaxReads
              /\ reads' = Append(reads, NewRead(chosen[1], localDetails))
              /\ Ran("handleAttachmentChange", [ arg |-> chosen, inputReset |-> TRUE ])
  /\ NoRender
  /\ UNCHANGED << mounted, canEdit, taskExtendedDetails, draggedSubStep, nextId,
                  isGeneratingProposals, proposalError, showProposalReview, saved >>
  /\ UNCHANGED uiVars

\* reader.onload with a string result.  A state update of an unmounted
\* component is dropped.
ReaderOnLoad ==
  /\ \E i \in DOMAIN reads :
       /\ nextId < MaxIds
       /\ nextId' = nextId + 1
       /\ reads' = SubSeq(reads, 1, i - 1) \o SubSeq(reads, i + 1, Len(reads))
       /\ Ran("readerOnLoad", [ arg |-> Some(reads[i].file) ])
       /\ IF mounted
            THEN SetLocal(updateLocalDetails(localDetails,
                   OnLoadUpdates(reads[i], generateUniqueId("attach", nextId))))
            ELSE NoRender
  /\ UNCHANGED << mounted, canEdit, taskExtendedDetails, draggedSubStep,
                  isGeneratingProposals, proposalError, showProposalReview, saved >>
  /\ UNCHANGED uiVars

\* the read fails, or its result is not a string: nothing is added
ReaderFails ==
  /\ \E i \in DOMAIN reads :
       reads' = SubSeq(reads, 1, i - 1) \o SubSeq(reads, i + 1, Len(reads))
  /\ NoRender
  /\ Out("readerFails")
  /\ UNCHANGED << mounted, canEdit, taskExtendedDetails, draggedSubStep, nextId,
                  isGeneratingProposals, proposalError,
                  showProposalReview, saved >>
  /\ UNCHANGED uiVars

AttachmentIds(ld) == { ld.attachments[i].id : i \in DOMAIN ld.attachments }

\* localDetails.attachments?.filter(a => a.id !== attachmentId) || []
RemoveAttachment(attachments, attachmentId) ==
  SelectSeq(attachments, LAMBDA a : a.id # attachmentId)

handleRemoveAttachment ==
  /\ mounted
  /\ \E attachmentId \in AttachmentIds(localDetails) :
       /\ Ran("handleRemoveAttachment", [ arg |-> Some(attachmentId) ])
       /\ IF ~ canEdit
            THEN NoRender
            ELSE SetLocal(updateLocalDetails(localDetails,
                   [ attachments |-> RemoveAttachment(localDetails.attachments,
                                                      attachmentId) ]))
  /\ UNCHANGED << mounted, canEdit, taskExtendedDetails, draggedSubStep, nextId, reads,
                  isGeneratingProposals, proposalError, showProposalReview, saved >>
  /\ UNCHANGED uiVars

\* ------------------------------------------------------------ drag and drop

\* canvasRef.current.getBoundingClientRect()
CanvasRect == [ left |-> 20, top |-> 10 ]

\* pointer positions of a drop: near the canvas corner and well inside it
DropPoints == { [ clientX |-> 30, clientY |-> 20 ], [ clientX |-> 420, clientY |-> 310 ] }

\* the pointer position taken as the card position, without the card offset
DropPosition_NoOffset(event, rect) ==
  [ x |-> event.clientX - rect.left, y |-> event.clientY - rect.top ]

\* newPosition of handleCanvasDrop
DropPosition(event, rect) ==
  [ x |-> event.clientX - rect.left - CardOffsetX,
    y |-> event.clientY - rect.top - CardOffsetY ]

\* the handler without its canEdit guard
handleSubStepDragStart_NoGuard ==
  /\ mounted
  /\ \E subStepId \in SubStepIds(localDetails) :
       /\ Ran("handleSubStepDragStart", [ arg |-> Some(subStepId) ])
       /\ draggedSubStep' = Some(subStepId)
  /\ NoRender
  /\ UNCHANGED << mounted, canEdit, taskExtendedDetails, nextId, reads,
                  isGeneratingProposals, proposalError, showProposalReview, saved >>
  /\ UNCHANGED uiVars

handleSubStepDragStart ==
  /\ mounted
  /\ \E subStepId \in SubStepIds(localDetails) :
       /\ Ran("handleSubStepDragStart", [ arg |-> Some(subStepId) ])
       /\ IF ~ canEdit
            THEN UNCHANGED draggedSubStep
            ELSE draggedSubStep' = Some(subStepId)
  /\ NoRender
  /\ UNCHANGED << mounted, canEdit, taskExtendedDetails, nextId, reads,
                  isGeneratingProposals, proposalError, showProposalReview, saved >>
  /\ UNCHANGED uiVars

\* onDrop of the canvas; the canvas is in the document, so canvasRef.current is set
handleCanvasDrop ==
  /\ mounted
  /\ \E event \in DropPoints :
       /\ Ran("handleCanvasDrop", [ arg |-> Some(event) ])
       /\ IF ~ canEdit \/ draggedSubStep = None
            THEN NoRender /\ UNCHANGED draggedSubStep
            ELSE /\ SetLocalReplacing(updateLocalDetails(localDetails,
                      [ subSteps |-> UpdateSubSteps(localDetails.subSteps, draggedSubStep[1],
                                       [ position |-> DropPosition(event, CanvasRect) ]) ]),
                      draggedSubStep[1])
                 /\ draggedSubStep' = None
  /\ UNCHANGED << mounted, canEdit, taskExtendedDetails, nextId, reads,
                  isGeneratingProposals, proposalError, showProposalReview, saved >>
  /\ UNCHANGED uiVars

\* ---------------------------------------------------------------- proposals

\* the button is disabled while a request is in flight
handleGenerateProposals ==
  /\ mounted
  /\ IF ~ canEdit
       THEN /\ UNCHANGED << isGeneratingProposals, proposalError >>
            /\ Out("handleGenerateProposals")
       ELSE /\ ~ isGeneratingProposals
            /\ isGeneratingProposals' = TRUE
            /\ proposalError' = None
            /\ Ran("handleGenerateProposals", [ aiCall |-> TRUE ])
  /\ NoRender
  /\ UNCHANGED << mounted, canEdit, taskExtendedDetails, draggedSubStep, nextId, reads,
                  showProposalReview, saved >>
  /\ UNCHANGED uiVars

\* generateStepProposals resolves: try block, then finally
ProposalsArrive ==
  /\ mounted
  /\ isGeneratingProposals
  /\ showProposalReview' = TRUE
  /\ isGeneratingProposals' = FALSE
  /\ NoRender
  /\ Out("proposalsArrive")
  /\ UNCHANGED << mounted, canEdit, taskExtendedDetails, draggedSubStep, nextId, reads,
                  proposalError, saved >>
  /\ UNCHANGED uiVars

\* generateStepProposals rejects: catch block, then finally
ProposalsFail ==
  /\ mounted
  /\ isGeneratingProposals
  /\ proposalError' = Some("error")
  /\ isGeneratingProposals' = FALSE
  /\ NoRender
  /\ Out("proposalsFail")
  /\ UNCHANGED << mounted, canEdit, taskExtendedDetails, draggedSubStep, nextId, reads,
                  showProposalReview, saved >>
  /\ UNCHANGED uiVars

\* onClose of the ProposalReviewModal
CloseProposalReview ==
  /\ mounted
  /\ showProposalReview
  /\ showProposalReview' = FALSE
  /\ NoRender
  /\ Out("closeProposalReview")
  /\ UNCHANGED << mounted, canEdit, taskExtendedDetails, draggedSubStep, nextId, reads,
                  isGeneratingProposals, proposalError, saved >>
  /\ UNCHANGED uiVars

\* ------------------------------------------------------------- rendering

\* if (isSlideEditorOpen && localDetails.reportDeck) return <SlideEditorView ... />
SlideEditorRendered ==
  mounted /\ isSlideEditorOpen /\ "reportDeck" \in DOMAIN localDetails

\* the second return: the task dialog with its header, tabs and active tab
DialogRendered == mounted /\ ~ SlideEditorRendered

\* the sub-modals of the second return
ProposalReviewRendered == DialogRendered /\ showProposalReview
ActionItemTableRendered == DialogRendered /\ showActionItemTable
ActionItemReportRendered == DialogRendered /\ selectedActionItem # None
DecisionModalRendered == DialogRendered /\ showDecisionModal
CustomReportModalRendered == DialogRendered /\ showCustomReportModal

\* ----------------------------------------------------- proposal confirmation

\* the sequences over S of length at most n
SeqsUpTo(S, n) == UNION { [ 1 .. k -> S ] : k \in 0 .. n }

\* what the ProposalReviewModal hands to onConfirm: proposals to add as
\* sub-steps, and action items for sub-steps it was shown (existingSubSteps)
Proposal == [ title |-> "proposal", description |-> "about" ]

Additions(ld) ==
  { [ newSubSteps |-> ns, newActionItems |-> ni ] :
      ns \in SeqsUpTo({ Proposal }, MaxAdditions),
      ni \in SeqsUpTo({ [ targetSubStepId |-> t, title |-> "todo" ] : t \in SubStepIds(ld) },
                      MaxAdditions) }

\* additions.newSubSteps.map((proposal, index) => ({ ... })); index counts from 0
ProposedSubSteps(newSubSteps, n) ==
  [ i \in DOMAIN newSubSteps |->
      [ id |-> generateUniqueId("substep", n + i - 1),
        text |-> newSubSteps[i].title,
        notes |-> newSubSteps[i].description,
        position |-> [ x |-> ProposalX + ((i - 1) % ProposalColumns) * ProposalStepX,
                       y |-> ProposalY + ((i - 1) \div ProposalColumns) * ProposalStepY ],
        actionItems |-> << >>,
        attachments |-> << >> ] ]

\* the action items the forEach builds, in order, each with its target
ProposedActionItems(newActionItems, n) ==
  [ j \in DOMAIN newActionItems |->
      [ target |-> newActionItems[j].targetSubStepId,
        item |-> [ id |-> generateUniqueId("action", n + j - 1),
                   text |-> newActionItems[j].title,
                   completed |-> FALSE ] ] ]

\* targetSubStep.actionItems.push(...) for every item aimed at ss: the
\* SubStep object ss itself is changed
Pushed(ss, items) ==
  LET mine == SelectSeq(items, LAMBDA e : e.target = ss.id)
  IN  [ ss EXCEPT !.actionItems = @ \o [ j \in DOMAIN mine |-> mine[j].item ] ]

\* the sub-steps of another holder after the pushes: the objects it shares
\* with localDetails.subSteps have changed with them
PushedShared(subSteps, shared, items) ==
  [ i \in DOMAIN subSteps |->
      IF subSteps[i].id \in shared THEN Pushed(subSteps[i], items) ELSE subSteps[i] ]

\* onConfirm of the ProposalReviewModal.  updatedSubSteps is a new array of
\* the SubStep objects localDetails.subSteps holds, so a push reaches every
\* holder of the target object.  task.extendedDetails keeps its identity: the
\* sync effect does not run, the auto-save effect does.
handleProposalConfirm ==
  /\ ProposalReviewRendered
  /\ \E additions \in Additions(localDetails) :
       LET n == Len(additions.newSubSteps)
           m == Len(additions.newActionItems)
           newSubSteps == ProposedSubSteps(additions.newSubSteps, nextId)
           items == ProposedActionItems(additions.newActionItems, nextId + n)
           updatedSubSteps == localDetails.subSteps \o newSubSteps
           pushed == [ i \in DOMAIN updatedSubSteps |-> Pushed(updatedSubSteps[i], items) ]
           ted == IF taskExtendedDetails = None
                    THEN None
                    ELSE Some([ taskExtendedDetails[1] EXCEPT
                                  !.subSteps = PushedShared(@, aliased.ext, items) ])
           ld == updateLocalDetails(localDetails, [ subSteps |-> pushed ])
       IN  /\ nextId + n + m <= MaxIds
           /\ nextId' = nextId + n + m
           /\ taskExtendedDetails' = ted
           /\ saved' = IF saved = None
                         THEN None
                         ELSE Some([ saved[1] EXCEPT
                                       !.updates.subSteps = PushedShared(@, aliased.saved, items) ])
           /\ localDetails' = ld
           /\ timers' = AutoSaveEffect(timers, ld, ExtendedDetails(ted))
           /\ Ran("handleProposalConfirm", [ arg |-> Some(additions) ])
  /\ showProposalReview' = FALSE
  /\ quiet' = 0
  /\ savesSinceChange' = 0
  /\ savesSinceRun' = 0
  /\ edited' = TRUE
  /\ UNCHANGED << mounted, canEdit, draggedSubStep, reads,
                  isGeneratingProposals, proposalError, aliased >>
  /\ UNCHANGED uiVars

\* ------------------------------------------------------- tabs and sub-modals

Tabs == { "overview", "substeps", "decisions", "reports" }

\* onClick of a tab button
SetActiveTab ==
  /\ DialogRendered
  /\ \E id \in Tabs \ { activeTab } :
       /\ activeTab' = id
       /\ Ran("setActiveTab", [ arg |-> Some(id) ])
  /\ NoRender
  /\ UNCHANGED << mounted, canEdit, taskExtendedDetails, draggedSubStep, nextId, reads,
                  isGeneratingProposals, proposalError, showProposalReview, saved,
                  isSlideEditorOpen, isGeneratingSlides, slideError,
                  showActionItemTable, selectedActionItem, showDecisionModal,
                  showCustomReportModal >>

\* the action list button of the sub-steps tab
OpenActionItemTable ==
  /\ DialogRendered
  /\ activeTab = "substeps"
  /\ showActionItemTable' = TRUE
  /\ NoRender
  /\ Out("openActionItemTable")
  /\ UNCHANGED << mounted, canEdit, taskExtendedDetails, draggedSubStep, nextId, reads,
                  isGeneratingProposals, proposalError, showProposalReview, saved,
                  activeTab, isSlideEditorOpen, isGeneratingSlides, slideError,
                  selectedActionItem, showDecisionModal, showCustomReportModal >>

\* onClose of the ActionItemTableModal
CloseActionItemTable ==
  /\ ActionItemTableRendered
  /\ showActionItemTable' = FALSE
  /\ NoRender
  /\ Out("closeActionItemTable")
  /\ UNCHANGED << mounted, canEdit, taskExtendedDetails, draggedSubStep, nextId, reads,
                  isGeneratingProposals, proposalError, showProposalReview, saved,
                  activeTab, isSlideEditorOpen, isGeneratingSlides, slideError,
                  selectedActionItem, showDecisionModal, showCustomReportModal >>

\* the manage-decisions button of the decisions tab, rendered only with canEdit
OpenDecisionModal ==
  /\ DialogRendered
  /\ activeTab = "decisions"
  /\ canEdit
  /\ showDecisionModal' = TRUE
  /\ NoRender
  /\ Out("openDecisionModal")
  /\ UNCHANGED << mounted, canEdit, taskExtendedDetails, draggedSubStep, nextId, reads,
                  isGeneratingProposals, proposalError, showProposalReview, saved,
                  activeTab, isSlideEditorOpen, isGeneratingSlides, slideError,
                  showActionItemTable, selectedActionItem, showCustomReportModal >>

\* onClose of the DecisionModal
CloseDecisionModal ==
  /\ DecisionModalRendered
  /\ showDecisionModal' = FALSE
  /\ NoRender
  /\ Out("closeDecisionModal")
  /\ UNCHANGED << mounted, canEdit, taskExtendedDetails, draggedSubStep, nextId, reads,
                  isGeneratingProposals, proposalError, showProposalReview, saved,
                  activeTab, isSlideEditorOpen, isGeneratingSlides, slideError,
                  showActionItemTable, selectedActionItem, showCustomReportModal >>

\* the decisions lists the DecisionModal hands to onSave
DecisionLists ==
  { << >>,
    << [ id |-> << "decision", 200 >>, question |-> "which?", status |-> "undecided" ] >> }

\* onSave of the DecisionModal
SaveDecisions ==
  /\ DecisionModalRendered
  /\ \E decisions \in DecisionLists :
       /\ SetLocal(updateLocalDetails(localDetails, [ decisions |-> decisions ]))
       /\ Ran("saveDecisions", [ arg |-> Some(decisions) ])
  /\ showDecisionModal' = FALSE
  /\ UNCHANGED << mounted, canEdit, taskExtendedDetails, draggedSubStep, nextId, reads,
                  isGeneratingProposals, proposalError, showProposalReview, saved,
                  activeTab, isSlideEditorOpen, isGeneratingSlides, slideError,
                  showActionItemTable, selectedActionItem, showCustomReportModal >>

\* the custom report button of the reports tab
OpenCustomReportModal ==
  /\ DialogRendered
  /\ activeTab = "reports"
  /\ showCustomReportModal' = TRUE
  /\ NoRender
  /\ Out("openCustomReportModal")
  /\ UNCHANGED << mounted, canEdit, taskExtendedDetails, draggedSubStep, nextId, reads,
                  isGeneratingProposals, proposalError, showProposalReview, saved,
                  activeTab, isSlideEditorOpen, isGeneratingSlides, slideError,
                  showActionItemTable, selectedActionItem, showDecisionModal >>

\* onClose and onReportGenerated of the CustomTaskReportModal
CloseCustomReportModal ==
  /\ CustomReportModalRendered
  /\ showCustomReportModal' = FALSE
  /\ NoRender
  /\ Out("closeCustomReportModal")
  /\ UNCHANGED << mounted, canEdit, taskExtendedDetails, draggedSubStep, nextId, reads,
                  isGeneratingProposals, proposalError, showProposalReview, saved,
                  activeTab, isSlideEditorOpen, isGeneratingSlides, slideError,
                  showActionItemTable, selectedActionItem, showDecisionModal >>

\* --------------------------------------------------------------- slide deck

\* the deck generateInitialSlideDeck resolves to, and a deck edited in the editor
GeneratedDeck == [ slides |-> << "title" >> ]
EditedDeck == [ slides |-> << "title", "progress" >> ]

\* the slide button of the reports tab, disabled while a request is in flight
handleGenerateSlides ==
  /\ DialogRendered
  /\ activeTab = "reports"
  /\ ~ isGeneratingSlides
  /\ IF "reportDeck" \in DOMAIN localDetails
       THEN /\ isSlideEditorOpen' = TRUE
            /\ UNCHANGED << isGeneratingSlides, slideError >>
            /\ Out("handleGenerateSlides")
       ELSE /\ isGeneratingSlides' = TRUE
            /\ slideError' = None
            /\ UNCHANGED isSlideEditorOpen
            /\ Ran("handleGenerateSlides", [ aiCall |-> TRUE ])
  /\ NoRender
  /\ UNCHANGED << mounted, canEdit, taskExtendedDetails, draggedSubStep, nextId, reads,
                  isGeneratingProposals, proposalError, showProposalReview, saved,
                  activeTab, showActionItemTable, selectedActionItem, showDecisionModal,
                  showCustomReportModal >>

\* generateInitialSlideDeck resolves: try block, then finally
SlidesArrive ==
  /\ mounted
  /\ isGeneratingSlides
  /\ SetLocal(updateLocalDetails(localDetails, [ reportDeck |-> GeneratedDeck ]))
  /\ isSlideEditorOpen' = TRUE
  /\ isGeneratingSlides' = FALSE
  /\ Out("slidesArrive")
  /\ UNCHANGED << mounted, canEdit, taskExtendedDetails, draggedSubStep, nextId, reads,
                  isGeneratingProposals, proposalError, showProposalReview, saved,
                  activeTab, slideError, showActionItemTable, selectedActionItem,
                  showDecisionModal, showCustomReportModal >>

\* generateInitialSlideDeck rejects: catch block, then finally
SlidesFail ==
  /\ mounted
  /\ isGeneratingSlides
  /\ slideError' = Some("error")
  /\ isGeneratingSlides' = FALSE
  /\ NoRender
  /\ Out("slidesFail")
  /\ UNCHANGED << mounted, canEdit, taskExtendedDetails, draggedSubStep, nextId, reads,
                  isGeneratingProposals, proposalError, showProposalReview, saved,
                  activeTab, isSlideEditorOpen, showActionItemTable, selectedActionItem,
                  showDecisionModal, showCustomReportModal >>

\* the edit button of the deck card, rendered when localDetails.reportDeck is set
OpenSlideEditor ==
  /\ DialogRendered
  /\ activeTab = "reports"
  /\ "reportDeck" \in DOMAIN localDetails
  /\ isSlideEditorOpen' = TRUE
  /\ NoRender
  /\ Out("openSlideEditor")
  /\ UNCHANGED << mounted, canEdit, taskExtendedDetails, draggedSubStep, nextId, reads,
                  isGeneratingProposals, proposalError, showProposalReview, saved,
                  activeTab, isGeneratingSlides, slideError, showActionItemTable,
                  selectedActionItem, showDecisionModal, showCustomReportModal >>

\* onSave of the SlideEditorView
handleSaveSlides ==
  /\ SlideEditorRendered
  /\ \E deck \in { GeneratedDeck, EditedDeck } :
       /\ SetLocal(updateLocalDetails(localDetails, [ reportDeck |-> deck ]))
       /\ Ran("handleSaveSlides", [ arg |-> Some(deck) ])
  /\ UNCHANGED << mounted, canEdit, taskExtendedDetails, draggedSubStep, nextId, reads,
                  isGeneratingProposals, proposalError, showProposalReview, saved >>
  /\ UNCHANGED uiVars

\* onClose of the SlideEditorView
CloseSlideEditor ==
  /\ SlideEditorRendered
  /\ isSlideEditorOpen' = FALSE
  /\ NoRender
  /\ Out("closeSlideEditor")
  /\ UNCHANGED << mounted, canEdit, taskExtendedDetails, draggedSubStep, nextId, reads,
                  isGeneratingProposals, proposalError, showProposalReview, saved,
                  activeTab, isGeneratingSlides, slideError, showActionItemTable,
                  selectedActionItem, showDecisionModal, showCustomReportModal >>

\* ------------------------------------------------------------ specification

Next ==
  \/ Tick
  \/ FireTimer
  \/ ParentStores
  \/ ParentSetsDetails
  \/ ParentPassesNewCallback
  \/ ParentSetsCanEdit
  \/ Unmount
  \/ EditOverviewField
  \/ handleAddSubStep
  \/ handleUpdateSubStep
  \/ handleRemoveSubStep
  \/ handleAddActionItem
  \/ handleUpdateActionItem
  \/ handleRemoveActionItem
  \/ handleAttachmentChange
  \/ ReaderOnLoad
  \/ ReaderFails
  \/ handleRemoveAttachment
  \/ handleSubStepDragStart
  \/ handleCanvasDrop
  \/ handleGenerateProposals
  \/ ProposalsArrive
  \/ ProposalsFail
  \/ CloseProposalReview
  \/ handleProposalConfirm
  \/ SetActiveTab
  \/ OpenActionItemTable
  \/ CloseActionItemTable
  \/ OpenDecisionModal
  \/ CloseDecisionModal
  \/ SaveDecisions
  \/ OpenCustomReportModal
  \/ CloseCustomReportModal
  \/ handleGenerateSlides
  \/ SlidesArrive
  \/ SlidesFail
  \/ OpenSlideEditor
  \/ handleSaveSlides
  \/ CloseSlideEditor

Spec == Init /\ [][Next]_vars

\* The auto-save loop: overview edits, the clock, the debounce timer and the
\* parent, which may store what it is handed and may re-render at any time.
NextSave ==
  \/ Tick
  \/ FireTimer
  \/ ParentStores
  \/ ParentSetsDetails
  \/ ParentPassesNewCallback
  \/ Unmount
  \/ EditOverviewField

SpecSave == Init /\ [][NextSave]_vars

\* Editing the sub-steps and their action items.
NextEdit ==
  \/ ParentSetsDetails
  \/ ParentSetsCanEdit
  \/ handleAddSubStep
  \/ handleUpdateSubStep
  \/ handleRemoveSubStep
  \/ handleAddActionItem
  \/ handleUpdateActionItem
  \/ handleRemoveActionItem

SpecEdit == Init /\ [][NextEdit]_vars

\* Placing sub-steps on the canvas.
NextDrag ==
  \/ ParentSetsDetails
  \/ ParentSetsCanEdit
  \/ handleAddSubStep
  \/ handleRemoveSubStep
  \/ handleSubStepDragStart
  \/ handleCanvasDrop

SpecDrag == Init /\ [][NextDrag]_vars

\* Attachments and the FileReader reads.
NextAttach ==
  \/ ParentSetsCanEdit
  \/ Unmount
  \/ handleAttachmentChange
  \/ ReaderOnLoad
  \/ ReaderFails
  \/ handleRemoveAttachment

SpecAttach == Init /\ [][NextAttach]_vars

\* The modal in read-only mode.  It starts in the states in which a parent
\* that revokes canEdit can find it: the task as persisted or with a sub-step
\* the user added, a drag begun or not, a file being read or not, a proposal
\* request in flight or not.
InitReadOnly ==
  /\ mounted = TRUE
  /\ canEdit = FALSE
  /\ taskExtendedDetails \in { None, Some(PersistedDetails) }
  /\ edited \in BOOLEAN
  /\ nextId = IF edited THEN 1 ELSE 0
  /\ localDetails =
       IF edited
         THEN updateLocalDetails(ExtendedDetails(taskExtendedDetails),
                [ subSteps |-> Append(ExtendedDetails(taskExtendedDetails).subSteps,
                                      NewSubStep(generateUniqueId("substep", 0))) ])
         ELSE ExtendedDetails(taskExtendedDetails)
  /\ timers = << NewTimer(localDetails, ExtendedDetails(taskExtendedDetails)) >>
  /\ draggedSubStep \in { None } \cup { Some(id) : id \in SubStepIds(localDetails) }
  /\ reads \in { << >> } \cup
               { << NewRead(f, localDetails) >> : f \in { g \in Files : ~ FileTooLarge(g) } }
  /\ isGeneratingProposals \in BOOLEAN
  /\ proposalError = None
  /\ showProposalReview = FALSE
  /\ activeTab = "overview"
  /\ isSlideEditorOpen = FALSE
  /\ isGeneratingSlides = FALSE
  /\ slideError = None
  /\ showActionItemTable = FALSE
  /\ selectedActionItem = None
  /\ showDecisionModal = FALSE
  /\ showCustomReportModal = FALSE
  /\ aliased = [ ext |-> SubStepIds(ExtendedDetails(taskExtendedDetails)), saved |-> { } ]
  /\ saved = None
  /\ savesSinceChange = 0
  /\ savesSinceRun = 0
  /\ quiet = 0
  /\ last = [ NoOutput EXCEPT !.op = "parentSetsCanEdit" ]

NextReadOnly ==
  \/ handleGenerateProposals
  \/ handleAddSubStep
  \/ handleUpdateSubStep
  \/ handleRemoveSubStep
  \/ handleAddActionItem
  \/ handleUpdateActionItem
  \/ handleRemoveActionItem
  \/ handleAttachmentChange
  \/ handleRemoveAttachment
  \/ handleSubStepDragStart
  \/ handleCanvasDrop

SpecReadOnly == InitReadOnly /\ [][NextReadOnly]_vars

\* Proposals: the request, the review modal and its confirmation, next to a
\* sub-step added by hand and the debounce timer.
NextProposal ==
  \/ Tick
  \/ FireTimer
  \/ handleAddSubStep
  \/ handleGenerateProposals
  \/ ProposalsArrive
  \/ ProposalsFail
  \/ CloseProposalReview
  \/ handleProposalConfirm

SpecProposal == Init /\ [][NextProposal]_vars

\* The tabs, the sub-modals and the slide deck, with the debounce timer and a
\* parent that may pass other details.  canEdit stays as it was at the mount.
NextView ==
  \/ Tick
  \/ FireTimer
  \/ ParentSetsDetails
  \/ SetActiveTab
  \/ OpenActionItemTable
  \/ CloseActionItemTable
  \/ OpenDecisionModal
  \/ CloseDecisionModal
  \/ SaveDecisions
  \/ OpenCustomReportModal
  \/ CloseCustomReportModal
  \/ handleGenerateSlides
  \/ SlidesArrive
  \/ SlidesFail
  \/ OpenSlideEditor
  \/ handleSaveSlides
  \/ CloseSlideEditor

SpecView == Init /\ [][NextView]_vars

\* ------------------------------------------------------------------ claims

Ext == ExtendedDetails(taskExtendedDetails)

\* localDetails differs from the persisted details by JSON serialization
Differs == JSONstringify(localDetails) # JSONstringify(Ext)

\* the arguments onUpdateTask gets when it is handed the present localDetails
PresentPayload == Some([ taskId |-> TaskId, updates |-> localDetails ])

\* no timer callback is due at this instant
NothingDue == \A i \in DOMAIN timers : timers[i].remaining > 0

\* the handlers through which the user edits localDetails
EditOps ==
  { "editOverviewField", "handleAddSubStep", "handleUpdateSubStep", "handleRemoveSubStep",
    "handleAddActionItem", "handleUpdateActionItem", "handleRemoveActionItem",
    "readerOnLoad", "handleRemoveAttachment", "handleCanvasDrop" }

\* C1 as stated: while the modal is mounted, if localDetails differs from the
\* persisted details and neither has changed for 1000 ms (and no timer
\* callback is still due), onUpdateTask has been invoked exactly once since
\* the last change, with (task.id, the present localDetails).
C1_DebouncedAutosave ==
  (mounted /\ Differs /\ quiet >= DebounceMs /\ NothingDue)
    => (savesSinceChange = 1 /\ saved = PresentPayload)

\* C1 amended: the same, provided the onUpdateTask prop and task.id have not
\* changed for 1000 ms either, that is, the timer of the last run of the
\* auto-save effect has expired: then onUpdateTask has been invoked exactly
\* once since that run, with (task.id, the present localDetails).
C1_DebouncedAutosaveStableProps ==
  (mounted /\ Differs /\ timers = << >>)
    => (quiet >= DebounceMs /\ savesSinceRun = 1 /\ saved = PresentPayload)

\* an edit was saved 1000 ms after it was made
C1_Witness ==
  /\ mounted /\ Differs /\ timers = << >>
  /\ last.op = "timer" /\ last.saveCall
  /\ edited /\ saved = PresentPayload

\* C2 as stated: every change of localDetails cancels the pending timer and
\* starts a new 1000 ms timer, at most one timer is pending, onUpdateTask is
\* never invoked less than 1000 ms after an edit, its payload is the present
\* (never a stale) localDetails, and it is invoked at most once for a burst.
C2_Coalescing ==
  /\ Len(timers) <= 1
  /\ \A i \in DOMAIN timers :
       timers[i].localDetails = localDetails /\ timers[i].extendedDetails = Ext
  /\ (last.op \in EditOps /\ mounted) =>
       (Len(timers) = 1 /\ timers[1].remaining = DebounceMs)
  /\ last.saveCall => (quiet >= DebounceMs /\ saved = PresentPayload)
  /\ savesSinceChange <= 1

\* C2 amended: as stated, but the burst produces at most one call for each
\* run of the auto-save effect; a new onUpdateTask prop after the call,
\* while the parent has not passed the saved value back, repeats the call.
C2_CoalescingPerEffectRun ==
  /\ Len(timers) <= 1
  /\ \A i \in DOMAIN timers :
       timers[i].localDetails = localDetails /\ timers[i].extendedDetails = Ext
  /\ (last.op \in EditOps /\ mounted) =>
       (Len(timers) = 1 /\ timers[1].remaining = DebounceMs)
  /\ last.saveCall => (quiet >= DebounceMs /\ saved = PresentPayload)
  /\ savesSinceRun <= 1

\* two edits were made, nothing was saved in between, and the one pending
\* timer, now due, holds the value after the second edit
C2_Witness ==
  /\ mounted /\ edited /\ saved = None /\ taskExtendedDetails = None
  /\ localDetails.notes = "x" /\ localDetails.resources = "x"
  /\ Len(timers) = 1 /\ timers[1].remaining = 0
  /\ timers[1].localDetails = localDetails

\* C3: a timer that expires while localDetails and the persisted details
\* serialize alike does not invoke onUpdateTask; and with no edit since the
\* modal was opened onUpdateTask is never invoked.
C3_NoRedundantSave ==
  /\ (last.op = "timer" /\ ~ Differs) => ~ last.saveCall
  /\ ~ edited => (saved = None /\ ~ last.saveCall)

\* the timer expired in a modal that was opened and never edited
C3_Witness ==
  /\ last.op = "timer" /\ ~ edited /\ ~ Differs /\ timers = << >> /\ mounted

C4_State ==
  /\ last.op = "mount" => localDetails = Ext
  /\ taskExtendedDetails = None =>
       /\ Ext = [ subSteps |-> << >>, resources |-> "", responsible |-> "", notes |-> "",
                  attachments |-> << >>, decisions |-> << >>,
                  subStepCanvasSize |-> [ width |-> 1200, height |-> 800 ] ]
       /\ localDetails = Ext => ~ last.saveCall

C4_Step ==
  taskExtendedDetails' # taskExtendedDetails \/ last'.op = "parentSetsDetails"
    => localDetails' = ExtendedDetails(taskExtendedDetails')

\* C4: localDetails starts as extendedDetails; whenever the parent passes
\* another task.extendedDetails, localDetails becomes the new extendedDetails;
\* a task without extendedDetails gets the default object, and while
\* localDetails is that default no save is made.
C4_PersistedToLocalSync == [] C4_State /\ [][C4_Step]_vars

\* the user had edited, then the parent passed a task without extendedDetails
C4_Witness ==
  /\ last.op = "parentSetsDetails" /\ edited
  /\ taskExtendedDetails = None /\ localDetails = DefaultDetails
  /\ saved # None

\* C5: when the parent passes back the value it was handed, localDetails
\* equals extendedDetails, and from then on, as long as the user makes no
\* edit, they stay equal and onUpdateTask is not invoked.
C5_NoSaveLoop ==
  [][ /\ last'.op = "parentStores" =>
           /\ localDetails' = ExtendedDetails(taskExtendedDetails')
           /\ localDetails' = saved[1].updates
      /\ (~ Differs /\ last'.op \notin EditOps) =>
           /\ JSONstringify(localDetails') = JSONstringify(ExtendedDetails(taskExtendedDetails'))
           /\ ~ last'.saveCall ]_vars

\* the saved value came back and the timer it started expired without a save
C5_Witness ==
  /\ saved # None /\ taskExtendedDetails = Some(saved[1].updates)
  /\ localDetails = Ext /\ last.op = "timer" /\ ~ last.saveCall
  /\ timers = << >> /\ mounted

\* the fields of localDetails other than field are as they were
OnlyFieldChanged(field) ==
  /\ DOMAIN localDetails' = DOMAIN localDetails
  /\ \A k \in DOMAIN localDetails \ { field } : localDetails'[k] = localDetails[k]

C6_Step ==
  last'.op = "handleCanvasDrop" =>
    IF canEdit /\ draggedSubStep # None
      THEN LET event == last'.arg[1]
               ss == localDetails.subSteps
               dropped == [ x |-> event.clientX - CanvasRect.left - 100,
                            y |-> event.clientY - CanvasRect.top - 50 ]
           IN  /\ draggedSubStep' = None
               /\ OnlyFieldChanged("subSteps")
               /\ Len(localDetails'.subSteps) = Len(ss)
               /\ \A i \in DOMAIN ss :
                    localDetails'.subSteps[i] =
                      IF ss[i].id = draggedSubStep[1]
                        THEN [ ss[i] EXCEPT !.position = dropped ]
                        ELSE ss[i]
      ELSE draggedSubStep = None =>
             UNCHANGED << localDetails, draggedSubStep, timers, nextId >>

\* C6: with canEdit and a drag in progress, a drop at (clientX, clientY) sets
\* the position of the dragged sub-step, and of no other, to
\* (clientX - canvasLeft - 100, clientY - canvasTop - 50), leaves every other
\* field of localDetails alone and clears draggedSubStep; a drop with no drag
\* in progress changes nothing.
C6_DropPositionsDraggedSubStep == [][C6_Step]_vars

\* one of two sub-steps was dropped away from where it was created
C6_Witness ==
  /\ last.op = "handleCanvasDrop" /\ canEdit /\ draggedSubStep = None
  /\ Len(localDetails.subSteps) >= 2
  /\ \E i, j \in DOMAIN localDetails.subSteps :
       /\ localDetails.subSteps[i].position = [ x |-> 300, y |-> 250 ]
       /\ localDetails.subSteps[j].position = [ x |-> 50, y |-> 50 ]

GuardedHandlers ==
  { "handleGenerateProposals", "handleAddSubStep", "handleUpdateSubStep",
    "handleRemoveSubStep", "handleAddActionItem", "handleUpdateActionItem",
    "handleRemoveActionItem", "handleAttachmentChange", "handleRemoveAttachment",
    "handleSubStepDragStart", "handleCanvasDrop" }

C7_Step ==
  (~ canEdit /\ last'.op \in GuardedHandlers) =>
    /\ UNCHANGED << localDetails, timers, draggedSubStep, nextId, reads,
                    isGeneratingProposals, proposalError, showProposalReview,
                    uiVars, saved, edited, mounted >>
    /\ ~ last'.aiCall
    /\ last'.confirm = "none"
    /\ ~ last'.alert

\* C7: with canEdit false, each of the eleven guarded handlers returns with
\* localDetails and all other component state as they were, calls no AI
\* service and shows no confirmation.
C7_ReadOnlyGuard == [][C7_Step]_vars

\* a drop in read-only mode while a drag begun earlier was still recorded
C7_Witness ==
  /\ ~ canEdit /\ last.op = "handleCanvasDrop" /\ draggedSubStep # None
  /\ Len(localDetails.subSteps) >= 1

C8_Step ==
  (last'.op = "handleAddSubStep" /\ canEdit) =>
    LET ss == localDetails.subSteps
        added == localDetails'.subSteps[Len(ss) + 1]
    IN  /\ Len(localDetails'.subSteps) = Len(ss) + 1
        /\ SubSeq(localDetails'.subSteps, 1, Len(ss)) = ss
        /\ added.id = generateUniqueId("substep", nextId)
        /\ added.id \notin SubStepIds(localDetails)
        /\ added.position = [ x |-> 50, y |-> 50 ]
        /\ added.actionItems = << >>
        /\ added.attachments = << >>
        /\ OnlyFieldChanged("subSteps")

\* C8: with canEdit, handleAddSubStep appends exactly one sub-step, with an id
\* from generateUniqueId('substep'), position (50, 50) and no action items or
\* attachments; the sub-steps there before keep content and order, and no
\* other field of localDetails changes.
C8_AddSubStepAppends == [][C8_Step]_vars

\* a sub-step was appended behind two others
C8_Witness ==
  /\ last.op = "handleAddSubStep" /\ canEdit
  /\ Len(localDetails.subSteps) = 3
  /\ localDetails.subSteps[3].position = [ x |-> 50, y |-> 50 ]

\* seq without its i-th element
Without(seq, i) == SubSeq(seq, 1, i - 1) \o SubSeq(seq, i + 1, Len(seq))

C9_Step ==
  /\ (last'.op = "handleRemoveSubStep" /\ canEdit) =>
       LET ss == localDetails.subSteps IN
       /\ last'.confirm \in { "accepted", "declined" }
       /\ last'.confirm = "declined" => localDetails' = localDetails
       /\ last'.confirm = "accepted" =>
            /\ \E i \in DOMAIN ss :
                 /\ ss[i].id = last'.arg[1]
                 /\ localDetails'.subSteps = Without(ss, i)
            /\ OnlyFieldChanged("subSteps")
  /\ (last'.op = "handleRemoveActionItem" /\ canEdit) =>
       LET ss == localDetails.subSteps IN
       /\ last'.confirm \in { "accepted", "declined" }
       /\ last'.confirm = "declined" => localDetails' = localDetails
       /\ last'.confirm = "accepted" =>
            /\ Len(localDetails'.subSteps) = Len(ss)
            /\ \A i \in DOMAIN ss :
                 IF ss[i].id = last'.arg[1][1]
                   THEN \E j \in DOMAIN ss[i].actionItems :
                          /\ ss[i].actionItems[j].id = last'.arg[1][2]
                          /\ localDetails'.subSteps[i] =
                               [ ss[i] EXCEPT !.actionItems = Without(@, j) ]
                   ELSE localDetails'.subSteps[i] = ss[i]
            /\ OnlyFieldChanged("subSteps")

\* C9: handleRemoveSubStep and handleRemoveActionItem ask for confirmation;
\* declined, localDetails stays as it is; accepted, exactly the sub-step with
\* the given id (with its action items), or the one action item with the
\* given id inside the given sub-step, is removed and everything else keeps
\* its content and order.
C9_DeletionRequiresConfirmation == [][C9_Step]_vars

\* the middle one of three action items was removed after confirmation
C9_Witness ==
  /\ last.op = "handleRemoveActionItem" /\ last.confirm = "accepted" /\ canEdit
  /\ \E i \in DOMAIN localDetails.subSteps :
       /\ localDetails.subSteps[i].id = last.arg[1][1]
       /\ Len(localDetails.subSteps[i].actionItems) = 2
       /\ localDetails.subSteps[i].actionItems[1].id = << "action", 101 >>
       /\ localDetails.subSteps[i].actionItems[2].id = << "action", 2 >>

C10_Step ==
  /\ ( /\ last'.op = "handleAttachmentChange" /\ canEdit
       /\ last'.arg # None
       /\ last'.arg[1].size > 5 * 1024 * 1024 ) =>
       /\ last'.alert
       /\ last'.inputReset
       /\ reads' = reads
       /\ localDetails'.attachments = localDetails.attachments
  /\ ( /\ last'.op = "handleAttachmentChange" /\ canEdit
       /\ last'.arg # None
       /\ last'.arg[1].size <= 5 * 1024 * 1024 ) =>
       /\ ~ last'.alert
       /\ Len(reads') = Len(reads) + 1
  /\ (last'.op = "readerOnLoad" /\ mounted) =>
       LET file == last'.arg[1] IN
       localDetails'.attachments =
         Append(localDetails.attachments,
                [ id |-> generateUniqueId("attach", nextId), name |-> file.name,
                  type |-> file.type, dataUrl |-> DataUrl(file) ])

\* C10: a chosen file larger than 5 * 1024 * 1024 bytes is rejected: alert,
\* file input reset, no read started, attachments unchanged; a file of at
\* most that size is read, and when the read succeeds one new attachment with
\* a fresh id, the file's name and type and the data URL is appended to the
\* attachments of localDetails.
C10_AttachmentSizeLimit == [][C10_Step]_vars

\* C11: no local edit is overwritten by an older persisted value.  When the
\* user has changed localDetails after onUpdateTask was called with V and the
\* parent then passes V back, the edit is still in localDetails after the sync
\* effect, or a pending timer holds it and will hand it to onUpdateTask.
C11_Step ==
  ( /\ last.op = "editOverviewField"
    /\ saved # None
    /\ localDetails # saved[1].updates
    /\ last'.op = "parentStores" )
  => \/ localDetails' = localDetails
     \/ \E i \in DOMAIN timers' :
          /\ timers'[i].localDetails = localDetails
          /\ TimerSaves(timers'[i])

C11_NoEditOverwritten == [][C11_Step]_vars

\* C12: edits are not lost on close.  Once the modal is unmounted, an edit
\* that made localDetails differ from the persisted details has been passed
\* to onUpdateTask; and no onUpdateTask call occurs after the unmount.
C12_State ==
  (~ mounted /\ edited /\ Differs) => saved = PresentPayload

C12_Step ==
  ~ mounted => (saved' = saved /\ ~ last'.saveCall)

C12_EditsNotLostOnClose == [] C12_State /\ [][C12_Step]_vars

\* the number of action items in the sub-steps of a details object
RECURSIVE ActionItemCount(_)
ActionItemCount(subSteps) ==
  IF subSteps = << >>
    THEN 0
    ELSE Len(Head(subSteps).actionItems) + ActionItemCount(Tail(subSteps))

\* C13: confirmed proposals are saved without touching persisted data early.
\* When handleProposalConfirm adds action items to existing sub-steps and no
\* new sub-steps, the handler leaves task.extendedDetails as it was,
\* localDetails then holds the new action items and differs from
\* extendedDetails, and the timer the auto-save effect started will call
\* onUpdateTask with that localDetails.
C13_Step ==
  ( /\ last'.op = "handleProposalConfirm"
    /\ last'.arg[1].newSubSteps = << >>
    /\ last'.arg[1].newActionItems # << >> )
  => /\ taskExtendedDetails' = taskExtendedDetails
     /\ ActionItemCount(localDetails'.subSteps)
          = ActionItemCount(localDetails.subSteps) + Len(last'.arg[1].newActionItems)
     /\ JSONstringify(localDetails') # JSONstringify(ExtendedDetails(taskExtendedDetails'))
     /\ \E i \in DOMAIN timers' :
          /\ timers'[i].current
          /\ timers'[i].localDetails = localDetails'
          /\ TimerSaves(timers'[i])

C13_ConfirmedProposalsAreSaved == [][C13_Step]_vars

\* C14: read-only mode never writes.  While canEdit is false, localDetails
\* equals the persisted details (by JSON serialization) and onUpdateTask has
\* not been called, whatever the user does with the tabs, the report and
\* slide buttons and the sub-modals.
C14_ReadOnlyNeverWrites ==
  ~ canEdit => (~ Differs /\ saved = None)

\* C15: slide editor exclusivity.  The slide editor is rendered exactly when
\* isSlideEditorOpen is true and localDetails.reportDeck is present; while it
\* is rendered, neither the task dialog nor any of its sub-modals is; and
\* whenever isSlideEditorOpen is true, reportDeck is present.
C15_SlideEditorExclusivity ==
  /\ mounted =>
       (SlideEditorRendered <=> (isSlideEditorOpen /\ "reportDeck" \in DOMAIN localDetails))
  /\ SlideEditorRendered =>
       ~ ( \/ DialogRendered
           \/ ProposalReviewRendered
           \/ ActionItemTableRendered
           \/ ActionItemReportRendered
           \/ DecisionModalRendered
           \/ CustomReportModalRendered )
  /\ isSlideEditorOpen => "reportDeck" \in DOMAIN localDetails

\* C16: sub-steps stay on the canvas.  Every sub-step of localDetails has a
\* position with x >= 0 and y >= 0.
C16_SubStepsStayOnCanvas ==
  \A i \in DOMAIN localDetails.subSteps :
    /\ localDetails.subSteps[i].position.x >= 0
    /\ localDetails.subSteps[i].position.y >= 0

====
